---- MODULE Spec2Model ----
(***************************************************************************)
(* Atlas SDK core: the HttpClient retry loop (utils/http.ts and            *)
(* core/http/HttpClient.ts), the MemoryCache (utils/http.ts) and the       *)
(* ContentService operations layered on both.                              *)
(***************************************************************************)
EXTENDS Integers, Sequences, FiniteSets, TLC

\* ---------------------------------------------------------------- bounds
MaxRetries == 2
MaxElapsed == 3
MaxNow == 60001
MaxJitter == 1
MaxCalls == 2
MaxLimit == 3
MaxPage == 3
MaxOffset == 4
MaxTotal == 3
MaxClients == 2

\* ------------------------------------------------------------- constants
MsPerMinute == 60000
DefaultStatusCode == 500
DefaultLimit == 10
DefaultCacheDuration == 5

Undefined == "undefined"
Null == "null"

\* the two HttpClient classes of the repository
Variants == {"utils", "core"}
Retries == -1 .. MaxRetries
RetryDelays == {100, 1000}
Timeouts == {1, 2}
Statuses == {200, 404, 500}
Bodies == {"v1", "v2"}

MethodsOf(v) == IF v = "utils" THEN {"GET", "POST"}
                ELSE {"GET", "POST", "PUT", "DELETE"}

StatusText(s) == CASE s = 200 -> "OK"
                   [] s = 404 -> "Not Found"
                   [] s = 500 -> "Internal Server Error"
                   [] OTHER -> ""

VARIABLES
  variant, retries, retryDelay, timeout,   \* HttpClient class and its options
  headers,                                 \* options.headers of the HttpClient
  method,                                  \* method of the request in progress
  pc,                                      \* position inside HttpClient.request
  attempt,                                 \* the loop variable `attempt`
  elapsed,                                 \* time units since the attempt's fetch was issued
  resp,                                    \* status of the response fetch() resolved with in this attempt, 0 if none
  outcome, result, error,                  \* settlement of the promise request() returned
  fetches,                                 \* number of fetch() calls issued by this request
  errs,                                    \* errors caught so far, oldest first
  delays,                                  \* arguments of the delay() calls made so far
  cache, now,                              \* MemoryCache.cache and Date.now()
  lastOp,                                  \* the last MemoryCache call and what it returned
  config,                                  \* the service's config object
  clientConfig,                            \* the config object of the AtlasClient itself
  svc,                                     \* the service operation in progress
  calls,                                   \* number of service operations started
  req,                                     \* the PaginationOptions passed to processPaginationOptions
  norm,                                    \* what processPaginationOptions returned for req
  enrichArgs,                              \* the arguments of enrichPaginationResponse
  enriched,                                \* what enrichPaginationResponse returned for them
  procs,                                   \* the concurrent service calls, one per caller
  traffic,                                 \* how many requests were sent, responses stored, mutations applied
  atlasClientInstance,                     \* the module's singleton: 0 for null, or the number of an AtlasClient
  instConfig,                              \* this.config of the last AtlasClient constructed
  made,                                    \* how many AtlasClient, MemoryCache and HttpClient objects were constructed
  api                                      \* the last call of the singleton's functions and how it ended

httpVars == <<variant, retries, retryDelay, timeout, headers, method, pc, attempt,
              elapsed, resp, outcome, result, error, fetches, errs, delays>>
cacheVars == <<cache, now, lastOp>>
svcVars == <<config, clientConfig, svc, calls>>
pageVars == <<req, norm, enrichArgs, enriched>>
concVars == <<procs, traffic>>
singleVars == <<atlasClientInstance, instConfig, made, api>>
vars == <<httpVars, cacheVars, svcVars, pageVars, concVars, singleVars>>

\* an optional number of an options object: absent, or its value
Absent == [set |-> FALSE, v |-> 0]
Given(v) == [set |-> TRUE, v |-> v]

\* AtlasClient.getDefaultHeaders for a config with this apiKey
getDefaultHeaders(apiKey) ==
  IF apiKey = ""
    THEN [h \in {"Content-Type"} |-> "application/json"]
    ELSE [h \in {"Content-Type", "Authorization"} |->
            IF h = "Authorization" THEN "Bearer " \o apiKey
            ELSE "application/json"]

\* ------------------------------------------------------------------ errors
Msg(text, status, statusText) ==
  [text |-> text, status |-> status, statusText |-> statusText]

\* errors/AtlasError.ts: AtlasError constructor with statusCode defaulted
AtlasError(message, code, at) ==
  [name |-> "AtlasError", code |-> code, statusCode |-> DefaultStatusCode,
   message |-> message, isAtlas |-> TRUE, isError |-> TRUE, at |-> at]

AtlasNetworkError(message, at) ==
  [name |-> "AtlasNetworkError", code |-> "NETWORK_ERROR",
   statusCode |-> DefaultStatusCode,
   message |-> message, isAtlas |-> TRUE, isError |-> TRUE, at |-> at]

AtlasValidationError(message) ==
  [name |-> "AtlasValidationError", code |-> "VALIDATION_ERROR",
   statusCode |-> 400,
   message |-> message, isAtlas |-> TRUE, isError |-> TRUE, at |-> -1]

\* errors raised by the platform: fetch() rejecting, the abort, json() rejecting
NativeError(name, text, at) ==
  [name |-> name, code |-> Undefined, statusCode |-> 0,
   message |-> Msg(text, 0, ""), isAtlas |-> FALSE, isError |-> TRUE, at |-> at]

NoError == [name |-> "none", code |-> Undefined, statusCode |-> 0,
            message |-> Msg("", 0, ""), isAtlas |-> FALSE, isError |-> FALSE,
            at |-> -1]

\* the error thrown for a response with !response.ok
HttpStatusError(status, at) ==
  AtlasNetworkError(Msg("HTTP", status, StatusText(status)), at)

\* --------------------------------------------------------- HttpClient.request
\* a status test that lets client errors through as successes
ResponseOkBelow500(status) == status >= 200 /\ status <= 499

\* response.ok
ResponseOk(status) == status >= 200 /\ status <= 299

\* a loop that stops one iteration early
LoopCondStrict(a) == a < retries

\* the loop condition `attempt <= this.options.retries`
LoopCond(a) == a <= retries

\* a catch block that gives up one attempt early
IsLastAttemptEarly(a) == a + 1 >= retries

\* a catch block that retries reads only and gives up at once on a write
IsLastAttemptWritesOnce(a) == a = retries \/ method # "GET"

\* the catch block's `attempt === this.options.retries`
IsLastAttempt(a) == a = retries

\* Math.pow(2, n) for the loop's non-negative integer n
Pow2(n) == IF n <= 0 THEN 1 ELSE 2 ^ n

\* utils/http.ts: this.delay(this.options.retryDelay)
BackoffUtils(a) == retryDelay

\* core/http/HttpClient.ts: this.delay(this.options.retryDelay * Math.pow(2, attempt))
BackoffCore(a) == retryDelay * Pow2(a)

\* the argument of this.delay(...) in the catch block of the class in use
Backoff(a) == IF variant = "core" THEN BackoffCore(a) ELSE BackoffUtils(a)

\* evaluate the loop condition with attempt = a: enter the body and issue
\* fetch(), or fall out of the loop and return undefined
LoopHead(a) ==
  /\ attempt' = a
  /\ IF LoopCond(a)
       THEN /\ pc' = "fetch"
            /\ elapsed' = 0
            /\ resp' = 0
            /\ fetches' = fetches + 1
            /\ UNCHANGED <<outcome, result, error>>
       ELSE /\ pc' = "done"
            /\ outcome' = "resolved"
            /\ result' = Undefined
            /\ UNCHANGED <<elapsed, resp, fetches, error>>

\* a catch block that kept the first error it saw instead of the current one
ThrownFirst(e) == IF errs = <<>> THEN e ELSE errs[1]

\* `throw error` in the catch block: the error caught in this iteration
ThrownError(e) == e

\* the catch block, entered with the error e of the current attempt
Caught(e) ==
  /\ errs' = Append(errs, e)
  /\ IF IsLastAttempt(attempt)
       THEN /\ pc' = "done"
            /\ outcome' = "rejected"
            /\ error' = ThrownError(e)
            /\ UNCHANGED delays
       ELSE /\ pc' = "delay"
            /\ delays' = Append(delays, Backoff(attempt))
            /\ UNCHANGED <<outcome, error>>
  /\ UNCHANGED <<attempt, elapsed, fetches, result>>

\* request() called: the first evaluation of the loop
StartRequest(m) ==
  /\ pc = "idle"
  /\ m \in MethodsOf(variant)
  /\ method' = m
  /\ attempt' = 0
  /\ errs' = <<>>
  /\ delays' = <<>>
  /\ resp' = 0
  /\ IF LoopCond(0)
       THEN /\ pc' = "fetch"
            /\ elapsed' = 0
            /\ fetches' = 1
            /\ outcome' = "pending"
            /\ result' = Undefined
       ELSE /\ pc' = "done"
            /\ elapsed' = 0
            /\ fetches' = 0
            /\ outcome' = "resolved"
            /\ result' = Undefined
  /\ error' = NoError
  /\ UNCHANGED <<variant, retries, retryDelay, timeout, headers>>

Request(m) ==
  /\ svc.pc = "none"
  /\ StartRequest(m)
  /\ UNCHANGED <<cacheVars, svcVars, pageVars, concVars, singleVars>>

\* time passes while the attempt is pending; the abort timer is armed only
\* while fetch() is pending (clearTimeout runs before response.json())
Tick ==
  /\ pc \in {"fetch", "body"}
  /\ elapsed < MaxElapsed
  /\ pc = "fetch" => elapsed < timeout
  /\ elapsed' = elapsed + 1
  /\ UNCHANGED <<variant, retries, retryDelay, timeout, headers, method, pc, attempt,
                 resp, outcome, result, error, fetches, errs, delays>>
  /\ UNCHANGED <<cacheVars, svcVars, pageVars, concVars, singleVars>>

\* fetch() resolves with a response: clearTimeout, then the response.ok test
FetchResponds(status) ==
  /\ pc = "fetch"
  /\ resp' = status
  /\ IF ResponseOk(status)
       THEN /\ pc' = "body"
            /\ UNCHANGED <<attempt, elapsed, outcome, result, error, fetches,
                           errs, delays>>
       ELSE Caught(HttpStatusError(status, attempt))
  /\ UNCHANGED <<variant, retries, retryDelay, timeout, headers, method>>
  /\ UNCHANGED <<cacheVars, svcVars, pageVars, concVars, singleVars>>

\* fetch() rejects: transport failure
FetchRejects ==
  /\ pc = "fetch"
  /\ Caught(NativeError("TypeError", "fetch failed", attempt))
  /\ UNCHANGED <<variant, retries, retryDelay, timeout, headers, method, resp>>
  /\ UNCHANGED <<cacheVars, svcVars, pageVars, concVars, singleVars>>

\* the setTimeout callback runs controller.abort(): fetch() rejects
TimerFires ==
  /\ pc = "fetch"
  /\ elapsed >= timeout
  /\ Caught(NativeError("AbortError", "aborted", attempt))
  /\ UNCHANGED <<variant, retries, retryDelay, timeout, headers, method, resp>>
  /\ UNCHANGED <<cacheVars, svcVars, pageVars, concVars, singleVars>>

\* response.json() resolves: request() returns the decoded body
BodyDecoded(v) ==
  /\ pc = "body"
  /\ pc' = "done"
  /\ outcome' = "resolved"
  /\ result' = v
  /\ UNCHANGED <<variant, retries, retryDelay, timeout, headers, method, attempt,
                 elapsed, resp, error, fetches, errs, delays>>
  /\ UNCHANGED <<cacheVars, svcVars, pageVars, concVars, singleVars>>

\* response.json() rejects: the body is not JSON
BodyFails ==
  /\ pc = "body"
  /\ Caught(NativeError("SyntaxError", "invalid json", attempt))
  /\ UNCHANGED <<variant, retries, retryDelay, timeout, headers, method, resp>>
  /\ UNCHANGED <<cacheVars, svcVars, pageVars, concVars, singleVars>>

\* the delay() promise resolves: attempt++ and the loop condition again
DelayElapsed ==
  /\ pc = "delay"
  /\ LoopHead(attempt + 1)
  /\ UNCHANGED <<variant, retries, retryDelay, timeout, headers, method, errs, delays>>
  /\ UNCHANGED <<cacheVars, svcVars, pageVars, concVars, singleVars>>

HttpStep ==
  \/ Tick
  \/ \E s \in Statuses : FetchResponds(s)
  \/ FetchRejects
  \/ TimerFires
  \/ \E v \in Bodies : BodyDecoded(v)
  \/ BodyFails
  \/ DelayElapsed

\* ------------------------------------------------------------ cache keys
\* A parameter bag is the sequence of its properties in insertion order,
\* each <<name, type, value>> with type "str", "num" or "undef".
Quote(str) == "\"" \o str \o "\""

JsonValue(p) == IF p[2] = "num" THEN ToString(p[3]) ELSE Quote(p[3])

\* JSON.stringify skips properties whose value is undefined
Defined(bag) == SelectSeq(bag, LAMBDA p : p[2] # "undef")

RECURSIVE JsonMembers(_)
JsonMembers(bag) ==
  IF bag = <<>> THEN ""
  ELSE Quote(Head(bag)[1]) \o ":" \o JsonValue(Head(bag))
       \o (IF Tail(bag) = <<>> THEN "" ELSE "," \o JsonMembers(Tail(bag)))

\* the order in which JSON.stringify visits the properties of an object:
\* array indices ascending ("1" and "2" are the ones the bags use), then the
\* other names in insertion order
OwnKeys(bag) ==
  LET named(n) == SelectSeq(bag, LAMBDA p : p[1] = n)
  IN named("1") \o named("2")
     \o SelectSeq(bag, LAMBDA p : p[1] \notin {"1", "2"})

\* a serialization that emits the named options in alphabetical order
JSONStringifySorted(bag) ==
  LET named(n) == SelectSeq(bag, LAMBDA p : p[1] = n)
  IN "{" \o JsonMembers(Defined(OwnKeys(
              named("page") \o named("status") \o named("type")
              \o SelectSeq(bag, LAMBDA p : p[1] \in {"1", "2"})))) \o "}"

JSONStringify(bag) == "{" \o JsonMembers(Defined(OwnKeys(bag))) \o "}"

generateCacheKey(prefix, bag) == prefix \o ":" \o JSONStringify(bag)

Str(name, v) == <<name, "str", v>>

\* --------------------------------------------------------------- MemoryCache
EmptyMap == [k \in {} |-> 0]

MapDelete(c, k) == [x \in (DOMAIN c) \ {k} |-> c[x]]

\* an expiry test that already expires an entry at its expiry instant
IsExpiredEager(item, t) == t >= item.expiresAt

\* an expiry test that gives every entry one more millisecond
IsExpiredLate(item, t) == t > item.expiresAt + 1

\* `Date.now() > item.expiresAt`
IsExpired(item, t) == t > item.expiresAt

\* MemoryCache.get: the value returned
CacheGetRet(c, k, t) ==
  IF k \notin DOMAIN c THEN Null
  ELSE IF IsExpired(c[k], t) THEN Null
  ELSE c[k].data

\* a get that reports an expired entry absent but leaves it in the map
CacheAfterGetKeep(c, k, t) == c

\* a get that sweeps every expired entry out of the map
CacheAfterGetSweep(c, k, t) ==
  [x \in {y \in DOMAIN c : ~IsExpired(c[y], t)} |-> c[x]]

\* MemoryCache.get: the map afterwards
CacheAfterGet(c, k, t) ==
  IF k \in DOMAIN c /\ IsExpired(c[k], t) THEN MapDelete(c, k) ELSE c

\* a set that takes the TTL for seconds
CacheAfterSetSeconds(c, k, v, ttlMinutes, t) ==
  [x \in (DOMAIN c) \cup {k} |->
     IF x = k THEN [data |-> v, timestamp |-> t,
                    expiresAt |-> t + ttlMinutes * 1000]
     ELSE c[x]]

\* MemoryCache.set
CacheAfterSet(c, k, v, ttlMinutes, t) ==
  [x \in (DOMAIN c) \cup {k} |->
     IF x = k THEN [data |-> v, timestamp |-> t,
                    expiresAt |-> t + ttlMinutes * 60 * 1000]
     ELSE c[x]]

\* MemoryCache.delete
CacheDeleteRet(c, k) == k \in DOMAIN c

\* a delete that empties the map
CacheAfterDeleteAll(c, k) == EmptyMap

CacheAfterDelete(c, k) == MapDelete(c, k)

\* MemoryCache.size
CacheSize(c) == Cardinality(DOMAIN c)

\* JavaScript truthiness of a cached or decoded value
Truthy(v) == v \notin {Null, Undefined}

CacheOp(op, k, ret, existed, before, t) ==
  [op |-> op, key |-> k, ret |-> ret, existed |-> existed, before |-> before,
   at |-> t]

NoOp == CacheOp("none", "", Null, FALSE, EmptyMap, 0)

Ttls == {-1, 0, 1}
ClockSteps == {1, MsPerMinute}
CacheKeys == { generateCacheKey("content-id", <<Str("id", "a")>>),
               generateCacheKey("content", <<>>) }

Get(k) ==
  /\ cache' = CacheAfterGet(cache, k, now)
  /\ lastOp' = CacheOp("get", k, CacheGetRet(cache, k, now), FALSE, cache, now)
  /\ UNCHANGED <<now, httpVars, svcVars, pageVars, concVars, singleVars>>

Set(k, v, ttlMinutes) ==
  /\ cache' = CacheAfterSet(cache, k, v, ttlMinutes, now)
  /\ lastOp' = CacheOp("set", k, v, FALSE, cache, now)
  /\ UNCHANGED <<now, httpVars, svcVars, pageVars, concVars, singleVars>>

Delete(k) ==
  /\ cache' = CacheAfterDelete(cache, k)
  /\ lastOp' = CacheOp("delete", k, Null, CacheDeleteRet(cache, k), cache, now)
  /\ UNCHANGED <<now, httpVars, svcVars, pageVars, concVars, singleVars>>

\* a clear that removes only the entries that have expired
ClearExpiredOnly ==
  /\ cache' = [x \in {y \in DOMAIN cache : ~IsExpired(cache[y], now)} |-> cache[x]]
  /\ lastOp' = CacheOp("clear", "", Null, FALSE, cache, now)
  /\ UNCHANGED <<now, httpVars, svcVars, pageVars, concVars, singleVars>>

Clear ==
  /\ cache' = EmptyMap
  /\ lastOp' = CacheOp("clear", "", Null, FALSE, cache, now)
  /\ UNCHANGED <<now, httpVars, svcVars, pageVars, concVars, singleVars>>

\* Date.now() moves on, by whole minutes or by a few single milliseconds
Advance(d) ==
  /\ now + d <= MaxNow
  /\ d < MsPerMinute => (now % MsPerMinute) + d <= MaxJitter
  /\ now' = now + d
  /\ lastOp' = CacheOp("advance", "", Null, FALSE, cache, now)
  /\ UNCHANGED <<cache, httpVars, svcVars, pageVars, concVars, singleVars>>

\* ------------------------------------------------------------ ContentService
Ids == {"", "a"}
Slugs == {"", "s"}
Configs == [cache : BOOLEAN, cacheDuration : {1, 5}]
ServiceRetries == -1 .. 1

\* ContentService.handleError
handleError(e) ==
  IF e.isAtlas THEN e
  ELSE IF e.isError THEN AtlasError(e.message, "UNKNOWN_ERROR", e.at)
  ELSE AtlasError(Msg("An unknown error occurred", 0, ""), "UNKNOWN_ERROR", e.at)

\* a guard that lets the empty string through
MissingNever(arg) == FALSE

\* the `if (!id)`, `if (!slug)` guards
Missing(arg) == arg = ""

\* a service operation: where it is, its arguments, its cache key, how it
\* settled, whether it called the HttpClient, and the cache it started from
Call(p, op, id, slug, key, out, ret, err, sent, before) ==
  [pc |-> p, op |-> op, id |-> id, slug |-> slug, key |-> key,
   outcome |-> out, ret |-> ret, err |-> err, sent |-> sent,
   before |-> before]

NoCall == Call("none", "none", "", "", "", "none", Undefined, NoError, FALSE,
               EmptyMap)

CanCall ==
  /\ svc.pc \in {"none", "returned"}
  /\ pc = "idle"
  /\ calls < MaxCalls

\* the throw of an AtlasValidationError before the try block
ThrowValidation(op, id, slug, text) ==
  /\ svc' = Call("returned", op, id, slug, "", "rejected", Undefined,
                 AtlasValidationError(Msg(text, 0, "")), FALSE, cache)
  /\ UNCHANGED <<httpVars, cacheVars>>

\* the body shared by getById and getBySlug once the argument is present:
\* cache lookup, then http.get
ReadThrough(op, id, slug, key) ==
  LET cached == CacheGetRet(cache, key, now)
      after == CacheAfterGet(cache, key, now)
  IN IF config.cache
       THEN /\ cache' = after
            /\ lastOp' = CacheOp("get", key, cached, FALSE, cache, now)
            /\ UNCHANGED now
            /\ IF Truthy(cached)
                 THEN /\ svc' = Call("returned", op, id, slug, key, "resolved",
                                     cached, NoError, FALSE, cache)
                      /\ UNCHANGED httpVars
                 ELSE /\ svc' = Call("await", op, id, slug, key, "pending",
                                     Undefined, NoError, TRUE, cache)
                      /\ StartRequest("GET")
       ELSE /\ svc' = Call("await", op, id, slug, key, "pending",
                           Undefined, NoError, TRUE, cache)
            /\ StartRequest("GET")
            /\ UNCHANGED cacheVars

\* ContentService.getById up to its first await
GetById(id) ==
  /\ CanCall
  /\ calls' = calls + 1
  /\ UNCHANGED <<config, clientConfig, pageVars, concVars, singleVars>>
  /\ IF Missing(id)
       THEN ThrowValidation("getById", id, "", "Content ID is required")
       ELSE ReadThrough("getById", id, "",
                        generateCacheKey("content-id", <<Str("id", id)>>))

\* ContentService.getBySlug up to its first await
GetBySlug(slug) ==
  /\ CanCall
  /\ calls' = calls + 1
  /\ UNCHANGED <<config, clientConfig, pageVars, concVars, singleVars>>
  /\ IF Missing(slug)
       THEN ThrowValidation("getBySlug", "", slug, "Slug is required")
       ELSE ReadThrough("getBySlug", "", slug,
                        generateCacheKey("content-slug", <<Str("slug", slug)>>))

\* the ContentQueryOptions passed to list: none, or one filter
ListOptions == {<<>>, <<Str("status", "x")>>}

\* options of two properties, each pair in both insertion orders: two
\* filters, a filter and a page left undefined, two properties named by
\* array indices
OrderedOptions ==
  { <<Str("status", "x"), Str("type", "y")>>,
    <<Str("type", "y"), Str("status", "x")>>,
    <<Str("status", "x"), <<"page", "undef", "">> >>,
    << <<"page", "undef", "">>, Str("status", "x")>>,
    <<Str("1", "a"), Str("2", "b")>>,
    <<Str("2", "b"), Str("1", "a")>> }

\* ContentService.list up to its await. The query string, built from
\* processPaginationOptions, goes into the URL only.
List(options) ==
  /\ CanCall
  /\ calls' = calls + 1
  /\ UNCHANGED <<config, clientConfig, pageVars, concVars, singleVars>>
  /\ ReadThrough("list", "", "", generateCacheKey("content", options))

\* ContentService.create up to its await
Create ==
  /\ CanCall
  /\ calls' = calls + 1
  /\ svc' = Call("await", "create", "", "", "", "pending", Undefined, NoError,
                 TRUE, cache)
  /\ StartRequest("POST")
  /\ UNCHANGED <<config, clientConfig, cacheVars, pageVars, concVars, singleVars>>

\* ContentService.update up to its await; slug is data.slug
Update(id, slug) ==
  /\ CanCall
  /\ calls' = calls + 1
  /\ UNCHANGED <<config, clientConfig, pageVars, concVars, singleVars>>
  /\ IF Missing(id)
       THEN ThrowValidation("update", id, slug, "Content ID is required")
       ELSE /\ svc' = Call("await", "update", id, slug, "", "pending",
                           Undefined, NoError, TRUE, cache)
            /\ StartRequest("PUT")
            /\ UNCHANGED cacheVars

\* ContentService.delete up to its await
DeleteContent(id) ==
  /\ CanCall
  /\ calls' = calls + 1
  /\ UNCHANGED <<config, clientConfig, pageVars, concVars, singleVars>>
  /\ IF Missing(id)
       THEN ThrowValidation("delete", id, "", "Content ID is required")
       ELSE /\ svc' = Call("await", "delete", id, "", "", "pending",
                           Undefined, NoError, TRUE, cache)
            /\ StartRequest("DELETE")
            /\ UNCHANGED cacheVars

\* the cache after the invalidation code of a successful mutation
Invalidated(c, op, id, slug) ==
  LET listKey == generateCacheKey("content", <<>>)
      idKey == generateCacheKey("content-id", <<Str("id", id)>>)
      slugKey == generateCacheKey("content-slug", <<Str("slug", slug)>>)
      c1 == IF op \in {"update", "delete"} THEN CacheAfterDelete(c, idKey) ELSE c
      c2 == CacheAfterDelete(c1, listKey)
  IN IF op = "update" /\ ~Missing(slug) THEN CacheAfterDelete(c2, slugKey) ELSE c2

\* this.config of the AtlasClient after the constructor's merge with the
\* defaults: what the service's config says, and the options the HttpClient
\* was built from
ClientConfig(c) ==
  [cache |-> c.cache, cacheDuration |-> c.cacheDuration,
   timeout |-> timeout, retries |-> retries, retryDelay |-> retryDelay,
   apiKey |-> "k1"]

\* the argument of updateConfig: each field given or left out
ConfigPatches ==
  [cache : {[set |-> FALSE, v |-> FALSE], [set |-> TRUE, v |-> FALSE],
            [set |-> TRUE, v |-> TRUE]},
   cacheDuration : {Absent, Given(1), Given(5)},
   timeout : {Absent}, retries : {Absent}, retryDelay : {Absent},
   apiKey : {[set |-> FALSE, v |-> ""]}]

\* arguments of updateConfig that name options of the HttpClient
HttpPatches ==
  [cache : {[set |-> FALSE, v |-> FALSE]}, cacheDuration : {Absent},
   timeout : {Absent, Given(2)}, retries : {Absent, Given(0)},
   retryDelay : {Absent, Given(100)},
   apiKey : {[set |-> FALSE, v |-> ""], Given(""), Given("k2")}]

\* { ...this.config, ...newConfig }
Merged(c, patch) ==
  [f \in DOMAIN c |-> IF patch[f].set THEN patch[f].v ELSE c[f]]

\* an updateConfig that builds the HttpClient again from the new config
OptionsRebuilt(o, c) ==
  [timeout |-> c.timeout, retries |-> c.retries, retryDelay |-> c.retryDelay,
   headers |-> getDefaultHeaders(c.apiKey)]

\* the HttpClient's options after updateConfig made c the client's config:
\* this.http is not assigned and its options object is not written
OptionsAfterUpdate(o, c) == o

\* AtlasClient.updateConfig, called between two service operations: the
\* client gets a new config object, the services keep the one they were
\* constructed with
UpdateConfig(patch) ==
  LET c == Merged(clientConfig, patch)
      o == OptionsAfterUpdate([timeout |-> timeout, retries |-> retries,
                               retryDelay |-> retryDelay,
                               headers |-> headers], c)
  IN /\ svc.pc \in {"none", "returned"}
     /\ pc = "idle"
     /\ clientConfig' = c
     /\ clientConfig' # clientConfig
     /\ timeout' = o.timeout
     /\ retries' = o.retries
     /\ retryDelay' = o.retryDelay
     /\ headers' = o.headers
     /\ UNCHANGED <<variant, method, pc, attempt, elapsed, resp, outcome,
                    result, error, fetches, errs, delays>>
     /\ UNCHANGED <<config, svc, calls, cacheVars, pageVars, concVars, singleVars>>

\* the triggers of SyncService: the real runs clear the cache, the dry runs
\* have no cache code
SyncOps == {"triggerLocationSync", "triggerPublicationSync"}
DryRunOps == {"triggerLocationDryRun", "triggerPublicationDryRun"}

\* SyncService.trigger* up to its await
TriggerSync(op) ==
  /\ CanCall
  /\ calls' = calls + 1
  /\ svc' = Call("await", op, "", "", "", "pending", Undefined, NoError,
                 TRUE, cache)
  /\ StartRequest("POST")
  /\ UNCHANGED <<config, clientConfig, cacheVars, pageVars, concVars, singleVars>>

\* a trigger that has no cache code, whichever it is
AfterTriggerKeep(c, op) == c

\* the cache after the try block of a trigger whose request succeeded
AfterTrigger(c, op) == IF op \in SyncOps THEN EmptyMap ELSE c

\* a catch block that clears the cache
AfterFailureCleared(c) == EmptyMap

\* the cache after the catch block of any service operation
AfterFailure(c) == c

\* the operations that store the response; the response of list carries no
\* pagination block here, so enrichPaginationResponse returns it as it is
ReadOps == {"getById", "getBySlug", "list"}

\* the awaited http call settles: the rest of the try block, or the catch
Settle ==
  /\ svc.pc = "await"
  /\ pc = "done"
  /\ pc' = "idle"
  /\ UNCHANGED <<variant, retries, retryDelay, timeout, headers, method, attempt,
                 elapsed, resp, outcome, result, error, fetches, errs, delays>>
  /\ UNCHANGED <<config, clientConfig, calls, now, pageVars, concVars, singleVars>>
  /\ IF outcome = "resolved"
       THEN /\ svc' = [svc EXCEPT !.pc = "returned", !.outcome = "resolved",
                                  !.ret = result]
            /\ IF svc.op \in ReadOps
                 THEN IF config.cache
                        THEN /\ cache' = CacheAfterSet(cache, svc.key, result,
                                                       config.cacheDuration, now)
                             /\ lastOp' = CacheOp("set", svc.key, result, FALSE,
                                                  cache, now)
                        ELSE UNCHANGED <<cache, lastOp>>
                 ELSE IF svc.op \in SyncOps \cup DryRunOps
                   THEN /\ cache' = AfterTrigger(cache, svc.op)
                        /\ lastOp' = IF svc.op \in SyncOps
                                       THEN CacheOp("clear", "", Null, FALSE,
                                                    cache, now)
                                       ELSE lastOp
                   ELSE /\ cache' = Invalidated(cache, svc.op, svc.id, svc.slug)
                        /\ lastOp' = CacheOp("delete", "", Null, FALSE, cache,
                                             now)
       ELSE /\ svc' = [svc EXCEPT !.pc = "returned", !.outcome = "rejected",
                                  !.err = handleError(error)]
            /\ cache' = AfterFailure(cache)
            /\ UNCHANGED lastOp


\* ------------------------------------------------- concurrent service calls
Procs == {"p1", "p2"}

\* a service call of one caller: where it is, its operation, id and cache
\* key, whether it sent a request and stored the response, how it settled,
\* how many responses had been stored when it looked into the cache, and how
\* many mutations the server had applied when it answered (-1: no answer yet)
Proc(p, op, id, key, sent, stored, out, ret, seen, epoch) ==
  [pc |-> p, op |-> op, id |-> id, key |-> key, sent |-> sent,
   stored |-> stored, outcome |-> out, ret |-> ret, seen |-> seen,
   epoch |-> epoch]

NoProc == Proc("idle", "none", "", "", FALSE, FALSE, "none", Undefined, 0, -1)

\* another caller awaits the response for the same key
InFlight(p, key) ==
  \E q \in Procs \ {p} : procs[q].pc = "await" /\ procs[q].key = key

\* a getById that sends no request of its own while one for the same key is
\* in flight
BeginGetByIdCoalesced(p, id) ==
  LET key == generateCacheKey("content-id", <<Str("id", id)>>)
      cached == CacheGetRet(cache, key, now)
      send == ~InFlight(p, key)
  IN /\ procs[p].pc \in {"idle", "returned"}
     /\ calls < MaxCalls
     /\ calls' = calls + 1
     /\ UNCHANGED <<config, clientConfig, svc, now, httpVars, pageVars, singleVars>>
     /\ IF Missing(id)
          THEN /\ procs' = [procs EXCEPT ![p] =
                              Proc("returned", "getById", id, "", FALSE, FALSE,
                                   "rejected", Undefined, traffic.stored, -1)]
               /\ UNCHANGED <<cache, lastOp, traffic>>
          ELSE IF config.cache /\ Truthy(cached)
            THEN /\ procs' = [procs EXCEPT ![p] =
                                Proc("returned", "getById", id, key, FALSE,
                                     FALSE, "resolved", cached, traffic.stored,
                                     -1)]
                 /\ cache' = CacheAfterGet(cache, key, now)
                 /\ lastOp' = CacheOp("get", key, cached, FALSE, cache, now)
                 /\ UNCHANGED traffic
            ELSE /\ procs' = [procs EXCEPT ![p] =
                                Proc("await", "getById", id, key, send, FALSE,
                                     "pending", Undefined, traffic.stored, -1)]
                 /\ traffic' = [traffic EXCEPT
                                  !.sent = IF send THEN @ + 1 ELSE @]
                 /\ IF config.cache
                      THEN /\ cache' = CacheAfterGet(cache, key, now)
                           /\ lastOp' = CacheOp("get", key, cached, FALSE,
                                                cache, now)
                      ELSE UNCHANGED <<cache, lastOp>>

\* ContentService.getById called by p, up to its await
BeginGetById(p, id) ==
  LET key == generateCacheKey("content-id", <<Str("id", id)>>)
      cached == CacheGetRet(cache, key, now)
  IN /\ procs[p].pc \in {"idle", "returned"}
     /\ calls < MaxCalls
     /\ calls' = calls + 1
     /\ UNCHANGED <<config, clientConfig, svc, now, httpVars, pageVars, singleVars>>
     /\ IF Missing(id)
          THEN /\ procs' = [procs EXCEPT ![p] =
                              Proc("returned", "getById", id, "", FALSE, FALSE,
                                   "rejected", Undefined, traffic.stored, -1)]
               /\ UNCHANGED <<cache, lastOp, traffic>>
          ELSE IF config.cache /\ Truthy(cached)
            THEN /\ procs' = [procs EXCEPT ![p] =
                                Proc("returned", "getById", id, key, FALSE,
                                     FALSE, "resolved", cached, traffic.stored,
                                     -1)]
                 /\ cache' = CacheAfterGet(cache, key, now)
                 /\ lastOp' = CacheOp("get", key, cached, FALSE, cache, now)
                 /\ UNCHANGED traffic
            ELSE /\ procs' = [procs EXCEPT ![p] =
                                Proc("await", "getById", id, key, TRUE, FALSE,
                                     "pending", Undefined, traffic.stored, -1)]
                 /\ traffic' = [traffic EXCEPT !.sent = @ + 1]
                 /\ IF config.cache
                      THEN /\ cache' = CacheAfterGet(cache, key, now)
                           /\ lastOp' = CacheOp("get", key, cached, FALSE,
                                                cache, now)
                      ELSE UNCHANGED <<cache, lastOp>>

\* ContentService.update (data without slug) or delete called by p, up to
\* its await
BeginMutation(p, op, id) ==
  /\ procs[p].pc \in {"idle", "returned"}
  /\ calls < MaxCalls
  /\ calls' = calls + 1
  /\ UNCHANGED <<config, clientConfig, svc, cacheVars, httpVars, pageVars, singleVars>>
  /\ IF Missing(id)
       THEN /\ procs' = [procs EXCEPT ![p] =
                           Proc("returned", op, id, "", FALSE, FALSE,
                                "rejected", Undefined, traffic.stored, -1)]
            /\ UNCHANGED traffic
       ELSE /\ procs' = [procs EXCEPT ![p] =
                           Proc("await", op, id,
                                generateCacheKey("content-id", <<Str("id", id)>>),
                                TRUE, FALSE, "pending", Undefined,
                                traffic.stored, -1)]
            /\ traffic' = [traffic EXCEPT !.sent = @ + 1]

\* the server answers the request of p: a read is served from the item as
\* it is now, a mutation is applied to it
ServerAnswers(p) ==
  /\ procs[p].pc = "await"
  /\ procs[p].sent
  /\ procs[p].epoch = -1
  /\ IF procs[p].op = "getById"
       THEN /\ procs' = [procs EXCEPT ![p].epoch = traffic.applied]
            /\ UNCHANGED traffic
       ELSE /\ procs' = [procs EXCEPT ![p].epoch = traffic.applied + 1]
            /\ traffic' = [traffic EXCEPT !.applied = @ + 1]
  /\ UNCHANGED <<cacheVars, httpVars, svcVars, pageVars, singleVars>>

\* the http.get awaited by p resolves with v: the rest of the try block
GetResolves(p, v) ==
  /\ procs[p].pc = "await"
  /\ procs[p].op = "getById"
  /\ procs[p].sent => procs[p].epoch # -1
  /\ procs' = [procs EXCEPT ![p].pc = "returned", ![p].outcome = "resolved",
                            ![p].ret = v, ![p].stored = config.cache]
  /\ IF config.cache
       THEN /\ cache' = CacheAfterSet(cache, procs[p].key, v,
                                      config.cacheDuration, now)
            /\ lastOp' = CacheOp("set", procs[p].key, v, FALSE, cache, now)
            /\ traffic' = [traffic EXCEPT !.stored = @ + 1]
       ELSE UNCHANGED <<cache, lastOp, traffic>>
  /\ UNCHANGED <<now, httpVars, svcVars, pageVars, singleVars>>

\* the http.put or http.delete awaited by p resolves with v: the
\* invalidation code of the try block
MutationResolves(p, v) ==
  /\ procs[p].pc = "await"
  /\ procs[p].op \in {"update", "delete"}
  /\ procs[p].epoch # -1
  /\ procs' = [procs EXCEPT ![p].pc = "returned", ![p].outcome = "resolved",
                            ![p].ret = v]
  /\ cache' = Invalidated(cache, procs[p].op, procs[p].id, "")
  /\ lastOp' = CacheOp("delete", "", Null, FALSE, cache, now)
  /\ UNCHANGED <<traffic, now, httpVars, svcVars, pageVars, singleVars>>

\* the request awaited by p rejects: the catch block
GetRejects(p) ==
  /\ procs[p].pc = "await"
  /\ procs' = [procs EXCEPT ![p].pc = "returned", ![p].outcome = "rejected"]
  /\ UNCHANGED <<traffic, cacheVars, httpVars, svcVars, pageVars, singleVars>>

NextConcurrent ==
  \/ \E p \in Procs, id \in Ids : BeginGetById(p, id)
  \/ \E p \in Procs, op \in {"update", "delete"}, id \in Ids :
       BeginMutation(p, op, id)
  \/ \E p \in Procs : ServerAnswers(p)
  \/ \E p \in Procs, v \in Bodies : GetResolves(p, v)
  \/ \E p \in Procs, v \in Bodies : MutationResolves(p, v)
  \/ \E p \in Procs : GetRejects(p)
  \/ \E d \in ClockSteps : Advance(d)

\* ------------------------------------------------------ the client singleton
\* the AtlasClientConfig passed to createAtlasClient: apiUrl and websiteId
\* given, empty or missing, cacheDuration given or missing
ApiUrls == {Undefined, "", "u1", "u2"}
WebsiteIds == {Undefined, "", "w"}
ClientConfigs ==
  [apiUrl : ApiUrls, websiteId : WebsiteIds,
   cacheDuration : {Absent, Given(1), Given(DefaultCacheDuration)}]

NoConfig == [apiUrl |-> Undefined, websiteId |-> Undefined, cacheDuration |-> 0]

\* `!x` for an optional string
Falsy(x) == x \in {Undefined, ""}

\* a validateConfig that looks at apiUrl only
validateConfigApiUrlOnly(cfg) ==
  IF Falsy(cfg.apiUrl) THEN "apiUrl is required" ELSE ""

\* AtlasClient.validateConfig: the message of the AtlasValidationError it
\* throws, or "" when it returns
validateConfig(cfg) ==
  IF Falsy(cfg.apiUrl) THEN "apiUrl is required"
  ELSE IF Falsy(cfg.websiteId) THEN "websiteId is required"
  ELSE ""

\* { ...defaults, ...config } of the constructor
WithDefaults(cfg) ==
  [apiUrl |-> cfg.apiUrl, websiteId |-> cfg.websiteId,
   cacheDuration |-> IF cfg.cacheDuration.set THEN cfg.cacheDuration.v
                     ELSE DefaultCacheDuration]

\* { ...this.config, ...newConfig } of updateConfig
MergedConfig(c, cfg) ==
  [apiUrl |-> IF cfg.apiUrl = Undefined THEN c.apiUrl ELSE cfg.apiUrl,
   websiteId |-> IF cfg.websiteId = Undefined THEN c.websiteId
                 ELSE cfg.websiteId,
   cacheDuration |-> IF cfg.cacheDuration.set THEN cfg.cacheDuration.v
                     ELSE c.cacheDuration]

NoObjects == [clients |-> 0, caches |-> 0, https |-> 0]

\* a call of createAtlasClient, getAtlasClient or resetAtlasClient: what it
\* returned (0 for null) and the error it threw, if any
ApiCall(fn, ret, err) == [fn |-> fn, ret |-> ret, err |-> err]

NoApiCall == ApiCall("none", 0, NoError)

\* a createAtlasClient that constructs a new client every time
createAtlasClientAlwaysNew(cfg) ==
  /\ made.clients < MaxClients
  /\ IF validateConfig(cfg) # ""
       THEN /\ api' = ApiCall("createAtlasClient", 0,
                              AtlasValidationError(Msg(validateConfig(cfg), 0, "")))
            /\ UNCHANGED <<atlasClientInstance, instConfig, made, cache>>
       ELSE /\ instConfig' = WithDefaults(cfg)
            /\ cache' = EmptyMap
            /\ made' = [clients |-> made.clients + 1,
                        caches |-> made.caches + 1,
                        https |-> made.https + 1]
            /\ atlasClientInstance' = made.clients + 1
            /\ api' = ApiCall("createAtlasClient", made.clients + 1, NoError)
  /\ UNCHANGED <<now, lastOp, httpVars, svcVars, pageVars, concVars>>

\* createAtlasClient, with the constructor of AtlasClient and updateConfig
createAtlasClient(cfg) ==
  /\ atlasClientInstance = 0 => made.clients < MaxClients
  /\ IF atlasClientInstance = 0
       THEN IF validateConfig(cfg) # ""
              THEN /\ api' = ApiCall("createAtlasClient", 0,
                                     AtlasValidationError(
                                       Msg(validateConfig(cfg), 0, "")))
                   /\ UNCHANGED <<atlasClientInstance, instConfig, made, cache>>
              ELSE /\ instConfig' = WithDefaults(cfg)
                   /\ cache' = EmptyMap
                   /\ made' = [clients |-> made.clients + 1,
                               caches |-> made.caches + 1,
                               https |-> made.https + 1]
                   /\ atlasClientInstance' = made.clients + 1
                   /\ api' = ApiCall("createAtlasClient", made.clients + 1,
                                     NoError)
       ELSE /\ instConfig' = MergedConfig(instConfig, cfg)
            /\ api' = ApiCall("createAtlasClient", atlasClientInstance, NoError)
            /\ UNCHANGED <<atlasClientInstance, made, cache>>
  /\ UNCHANGED <<now, lastOp, httpVars, svcVars, pageVars, concVars>>

\* getAtlasClient
getAtlasClient ==
  /\ api' = ApiCall("getAtlasClient", atlasClientInstance, NoError)
  /\ UNCHANGED <<atlasClientInstance, instConfig, made>>
  /\ UNCHANGED <<cacheVars, httpVars, svcVars, pageVars, concVars>>

\* resetAtlasClient
resetAtlasClient ==
  /\ atlasClientInstance' = 0
  /\ api' = ApiCall("resetAtlasClient", 0, NoError)
  /\ UNCHANGED <<instConfig, made>>
  /\ UNCHANGED <<cacheVars, httpVars, svcVars, pageVars, concVars>>

\* the singleton's client stores a response in its cache
UseCache(k, v) ==
  /\ atlasClientInstance # 0
  /\ Set(k, v, instConfig.cacheDuration)

NextSingleton ==
  \/ \E cfg \in ClientConfigs : createAtlasClient(cfg)
  \/ getAtlasClient
  \/ resetAtlasClient
  \/ \E k \in CacheKeys, v \in Bodies : UseCache(k, v)

\* -------------------------------------------------------------- pagination
Limits == {Absent} \cup {Given(v) : v \in -2 .. MaxLimit}
Pages == {Absent} \cup {Given(v) : v \in -1 .. MaxPage}
Offsets == {Absent} \cup {Given(v) : v \in -1 .. MaxOffset}
Requests == [limit : Limits, page : Pages, offset : Offsets]

NoRequest == [limit |-> Absent, page |-> Absent, offset |-> Absent]
NoNorm == [done |-> FALSE, limit |-> 0, offset |-> 0, page |-> 0]

\* Math.floor(a / b) for integers a and b # 0
MathFloorDiv(a, b) == IF b > 0 THEN a \div b ELSE (-a) \div (-b)

\* `x || d` for an optional number x: d when x is undefined or 0
OrDefault(x, d) == IF x.set /\ x.v # 0 THEN x.v ELSE d

\* a pageToOffset that takes the page number for the number of pages to skip
pageToOffsetNoSkip(page, limit) ==
  IF ~page.set \/ page.v = 0 \/ page.v < 1 THEN 0 ELSE page.v * limit

\* pageToOffset
pageToOffset(page, limit) ==
  IF ~page.set \/ page.v = 0 \/ page.v < 1 THEN 0 ELSE (page.v - 1) * limit

\* an offsetToPage that numbers the pages from 0
offsetToPageZeroBased(offset, limit) == MathFloorDiv(offset, limit)

\* offsetToPage
offsetToPage(offset, limit) == MathFloorDiv(offset, limit) + 1

\* a processPaginationOptions that looks at the offset before the page
processPaginationOptionsOffsetFirst(options) ==
  LET limit == OrDefault(options.limit, DefaultLimit)
  IN IF options.offset.set
       THEN [done |-> TRUE, limit |-> limit, offset |-> options.offset.v,
             page |-> offsetToPage(options.offset.v, limit)]
       ELSE IF options.page.set
         THEN [done |-> TRUE, limit |-> limit,
               offset |-> pageToOffset(options.page, limit),
               page |-> options.page.v]
         ELSE [done |-> TRUE, limit |-> limit, offset |-> 0, page |-> 1]

\* processPaginationOptions
processPaginationOptions(options) ==
  LET limit == OrDefault(options.limit, DefaultLimit)
  IN IF options.page.set
       THEN [done |-> TRUE, limit |-> limit,
             offset |-> pageToOffset(options.page, limit),
             page |-> options.page.v]
       ELSE IF options.offset.set
         THEN [done |-> TRUE, limit |-> limit, offset |-> options.offset.v,
               page |-> offsetToPage(options.offset.v, limit)]
         ELSE [done |-> TRUE, limit |-> limit, offset |-> 0, page |-> 1]

\* one call of processPaginationOptions on the request drawn at the start
Normalize ==
  /\ ~norm.done
  /\ norm' = processPaginationOptions(req)
  /\ UNCHANGED <<req, enrichArgs, enriched, httpVars, cacheVars, svcVars, concVars, singleVars>>

NextPaging == Normalize

\* ------------------------------------------------- enrichPaginationResponse
\* a JavaScript number: an integer, Infinity or NaN; and undefined
Num(n) == [k |-> "int", v |-> n]
Infinity == [k |-> "Infinity", v |-> 0]
NaN == [k |-> "NaN", v |-> 0]
JsUndefined == [k |-> "undefined", v |-> 0]

\* a / b for integers a >= 0 and b = 0
DivByZero(a) == IF a = 0 THEN NaN ELSE Infinity

\* x < y for JavaScript numbers
JsLess(x, y) ==
  IF x.k = "NaN" \/ y.k = "NaN" THEN FALSE
  ELSE IF x.k = "Infinity" THEN FALSE
  ELSE IF y.k = "Infinity" THEN TRUE
  ELSE x.v < y.v

\* Math.ceil(a / b) for integers a and b # 0
MathCeilDiv(a, b) == - MathFloorDiv(- a, b)

\* a page count that rounds down: Math.floor(total / limit)
TotalPagesOfFloor(total, limit) ==
  IF limit = 0 THEN DivByZero(total) ELSE Num(MathFloorDiv(total, limit))

\* Math.ceil(total / limit)
TotalPagesOf(total, limit) ==
  IF limit = 0 THEN DivByZero(total) ELSE Num(MathCeilDiv(total, limit))

\* offsetToPage(offset, limit) for any limit: Math.floor(offset / limit) + 1
CurrentPageOf(offset, limit) ==
  IF limit = 0 THEN DivByZero(offset) ELSE Num(offsetToPage(offset, limit))

\* the pagination block of a response as the server sends it
NoBlock == [present |-> FALSE, total |-> 0, limit |-> 0, offset |-> 0]
ServerBlock(total, limit, offset) ==
  [present |-> TRUE, total |-> total, limit |-> limit, offset |-> offset]

ServerBlocks ==
  {NoBlock} \cup {ServerBlock(t, l, o) :
                    t \in 0 .. MaxTotal, l \in -1 .. MaxLimit, o \in 0 .. MaxOffset}
Responses == [data : Bodies, pagination : ServerBlocks]
RequestedPages == {Absent} \cup {Given(v) : v \in -1 .. MaxPage}
EnrichCalls ==
  [response : Responses, requestedLimit : {DefaultLimit},
   requestedPage : RequestedPages]

NoEnrichCall ==
  [response |-> [data |-> "v1", pagination |-> NoBlock],
   requestedLimit |-> DefaultLimit, requestedPage |-> Absent]

\* a pagination block without the derived fields
Underived(block) ==
  [present |-> block.present, total |-> block.total, limit |-> block.limit,
   offset |-> block.offset, page |-> JsUndefined, totalPages |-> JsUndefined,
   hasMore |-> FALSE, hasPrevious |-> FALSE]

NotEnriched ==
  [done |-> FALSE, data |-> "v1", pagination |-> Underived(NoBlock)]

\* enrichPaginationResponse
enrichPaginationResponse(response, requestedLimit, requestedPage) ==
  IF ~response.pagination.present
    THEN [done |-> TRUE, data |-> response.data,
          pagination |-> Underived(response.pagination)]
    ELSE LET total == response.pagination.total
             limit == response.pagination.limit
             offset == response.pagination.offset
             currentPage == IF requestedPage.set /\ requestedPage.v # 0
                              THEN Num(requestedPage.v)
                              ELSE CurrentPageOf(offset, limit)
             totalPages == TotalPagesOf(total, limit)
         IN [done |-> TRUE, data |-> response.data,
             pagination |->
               [present |-> TRUE, total |-> total, limit |-> limit,
                offset |-> offset, page |-> currentPage,
                totalPages |-> totalPages,
                hasMore |-> JsLess(currentPage, totalPages),
                hasPrevious |-> JsLess(Num(1), currentPage)]]

\* one call of enrichPaginationResponse on the arguments drawn at the start
Enrich ==
  /\ ~enriched.done
  /\ enriched' = enrichPaginationResponse(enrichArgs.response,
                                          enrichArgs.requestedLimit,
                                          enrichArgs.requestedPage)
  /\ UNCHANGED <<req, norm, enrichArgs, httpVars, cacheVars, svcVars, concVars, singleVars>>

NextEnrich == Enrich

InitHttp ==
  /\ variant \in Variants
  /\ retries \in Retries
  /\ retryDelay \in RetryDelays
  /\ timeout \in Timeouts
  /\ headers = getDefaultHeaders("k1")
  /\ method = "GET"
  /\ pc = "idle"
  /\ attempt = 0
  /\ elapsed = 0
  /\ resp = 0
  /\ outcome = "pending"
  /\ result = Undefined
  /\ error = NoError
  /\ fetches = 0
  /\ errs = <<>>
  /\ delays = <<>>

Init ==
  /\ InitHttp
  /\ cache = EmptyMap
  /\ now = 0
  /\ lastOp = NoOp
  /\ config = [cache |-> TRUE, cacheDuration |-> 5]
  /\ clientConfig = ClientConfig(config)
  /\ svc = NoCall
  /\ calls = 0
  /\ req = NoRequest
  /\ norm = NoNorm
  /\ enrichArgs = NoEnrichCall
  /\ enriched = NotEnriched
  /\ procs = [p \in Procs |-> NoProc]
  /\ traffic = [sent |-> 0, stored |-> 0, applied |-> 0]
  /\ atlasClientInstance = 0
  /\ instConfig = NoConfig
  /\ made = NoObjects
  /\ api = NoApiCall

Next ==
  \/ \E m \in {"GET", "POST", "PUT", "DELETE"} : Request(m)
  \/ HttpStep

Spec == Init /\ [][Next]_vars

NextCache ==
  \/ \E k \in CacheKeys : Get(k)
  \/ \E k \in CacheKeys, v \in Bodies, ttl \in Ttls : Set(k, v, ttl)
  \/ \E k \in CacheKeys : Delete(k)
  \/ Clear
  \/ \E d \in ClockSteps : Advance(d)

\* one client with the constructor's defaults, its cache empty
InitCache ==
  /\ Init
  /\ variant = "core"
  /\ retries = 1
  /\ retryDelay = 1000
  /\ timeout = 1

NextService ==
  \/ \E id \in Ids : GetById(id)
  \/ \E slug \in Slugs : GetBySlug(slug)
  \/ \E options \in ListOptions : List(options)
  \/ Create
  \/ \E id \in Ids, slug \in Slugs : Update(id, slug)
  \/ \E id \in Ids : DeleteContent(id)
  \/ Settle
  \/ HttpStep
  \/ \E d \in ClockSteps : Advance(d)

\* a read, the mutations of an item and the triggers on one client
NextSync ==
  \/ \E id \in Ids : GetById(id)
  \/ \E id \in Ids, slug \in Slugs : Update(id, slug)
  \/ \E id \in Ids : DeleteContent(id)
  \/ \E op \in SyncOps \cup DryRunOps : TriggerSync(op)
  \/ Settle
  \/ HttpStep
  \/ \E d \in ClockSteps : Advance(d)

NextConfig ==
  \/ NextService
  \/ \E patch \in ConfigPatches : UpdateConfig(patch)

\* a client built by the AtlasClient constructor: the core HttpClient, the
\* services sharing its cache
InitService ==
  /\ variant = "core"
  /\ retries \in ServiceRetries
  /\ retryDelay = 1000
  /\ timeout = 1
  /\ headers = getDefaultHeaders("k1")
  /\ method = "GET"
  /\ pc = "idle"
  /\ attempt = 0
  /\ elapsed = 0
  /\ resp = 0
  /\ outcome = "pending"
  /\ result = Undefined
  /\ error = NoError
  /\ fetches = 0
  /\ errs = <<>>
  /\ delays = <<>>
  /\ cache = EmptyMap
  /\ now = 0
  /\ lastOp = NoOp
  /\ config \in Configs
  /\ clientConfig = ClientConfig(config)
  /\ svc = NoCall
  /\ calls = 0
  /\ req = NoRequest
  /\ norm = NoNorm
  /\ enrichArgs = NoEnrichCall
  /\ enriched = NotEnriched
  /\ procs = [p \in Procs |-> NoProc]
  /\ traffic = [sent |-> 0, stored |-> 0, applied |-> 0]
  /\ atlasClientInstance = 0
  /\ instConfig = NoConfig
  /\ made = NoObjects
  /\ api = NoApiCall

SpecService == InitService /\ [][NextService]_vars

\* a client built with the default cache settings and one retry
InitConfig ==
  /\ InitService
  /\ retries = 1
  /\ config = [cache |-> TRUE, cacheDuration |-> 5]

SpecConfig == InitConfig /\ [][NextConfig]_vars

\* list called with options built in either order
NextKeys ==
  \/ \E options \in OrderedOptions : List(options)
  \/ Settle
  \/ HttpStep
  \/ \E d \in ClockSteps : Advance(d)

SpecKeys == InitConfig /\ [][NextKeys]_vars

\* a client whose config is updated between getById calls
NextUpdate ==
  \/ \E id \in Ids : GetById(id)
  \/ Settle
  \/ HttpStep
  \/ \E d \in ClockSteps : Advance(d)
  \/ \E patch \in HttpPatches : UpdateConfig(patch)

SpecUpdate == InitConfig /\ [][NextUpdate]_vars

\* a client with the cache on, entries living one minute, and one retry
InitSync ==
  /\ InitService
  /\ retries = 1
  /\ config = [cache |-> TRUE, cacheDuration |-> 1]

SpecSync == InitSync /\ [][NextSync]_vars

\* a client on which two callers call getById
InitConcurrent ==
  /\ InitService
  /\ retries = 0

SpecConcurrent == InitConcurrent /\ [][NextConcurrent]_vars

\* the module of the singleton just loaded: no instance yet
InitSingleton ==
  /\ InitService
  /\ retries = 0
  /\ config = [cache |-> TRUE, cacheDuration |-> 5]

SpecSingleton == InitSingleton /\ [][NextSingleton]_vars

SpecCache == InitCache /\ [][NextCache]_vars

\* any PaginationOptions object, not yet normalized
InitPaging ==
  /\ InitHttp
  /\ variant = "core"
  /\ retries = 1
  /\ retryDelay = 1000
  /\ timeout = 1
  /\ cache = EmptyMap
  /\ now = 0
  /\ lastOp = NoOp
  /\ config = [cache |-> TRUE, cacheDuration |-> 5]
  /\ clientConfig = ClientConfig(config)
  /\ svc = NoCall
  /\ calls = 0
  /\ req \in Requests
  /\ norm = NoNorm
  /\ enrichArgs = NoEnrichCall
  /\ enriched = NotEnriched
  /\ procs = [p \in Procs |-> NoProc]
  /\ traffic = [sent |-> 0, stored |-> 0, applied |-> 0]
  /\ atlasClientInstance = 0
  /\ instConfig = NoConfig
  /\ made = NoObjects
  /\ api = NoApiCall

SpecPaging == InitPaging /\ [][NextPaging]_vars

\* any call of enrichPaginationResponse, not yet made
InitEnrich ==
  /\ InitHttp
  /\ variant = "core"
  /\ retries = 1
  /\ retryDelay = 1000
  /\ timeout = 1
  /\ cache = EmptyMap
  /\ now = 0
  /\ lastOp = NoOp
  /\ config = [cache |-> TRUE, cacheDuration |-> 5]
  /\ clientConfig = ClientConfig(config)
  /\ svc = NoCall
  /\ calls = 0
  /\ req = NoRequest
  /\ norm = NoNorm
  /\ enrichArgs \in EnrichCalls
  /\ enriched = NotEnriched
  /\ procs = [p \in Procs |-> NoProc]
  /\ traffic = [sent |-> 0, stored |-> 0, applied |-> 0]
  /\ atlasClientInstance = 0
  /\ instConfig = NoConfig
  /\ made = NoObjects
  /\ api = NoApiCall

SpecEnrich == InitEnrich /\ [][NextEnrich]_vars

\* ------------------------------------------------- properties of request()
RECURSIVE SumSeq(_)
SumSeq(q) == IF q = <<>> THEN 0 ELSE Head(q) + SumSeq(Tail(q))

AllAttemptsFailed == Len(errs) = fetches

\* C1: for retries = N >= 0 a request never issues more than N+1 fetches, and
\* a request all of whose attempts failed has issued exactly N+1 fetches and
\* is rejected; a rejected request has issued exactly N+1 fetches.
C1_ExactAttempts ==
  retries >= 0 =>
    /\ fetches <= retries + 1
    /\ (pc = "done" /\ AllAttemptsFailed) =>
         (outcome = "rejected" /\ fetches = retries + 1)
    /\ outcome = "rejected" =>
         (fetches = retries + 1 /\ Len(errs) = retries + 1)

C1_Witness ==
  /\ retries = 2
  /\ pc = "done"
  /\ outcome = "rejected"
  /\ fetches = 3
  /\ Len(errs) = 3

\* C2: inside one request the only transitions are: an attempt succeeds and
\* the call resolves with the body decoded by that attempt; an attempt n <
\* retries fails and, after the delay, attempt n+1 is issued; attempt n =
\* retries fails and the call rejects.  Nothing is fetched after the call
\* has settled and the attempt counter moves by at most one.
C2_Transitions ==
  [][ /\ pc \in {"fetch", "body", "delay"} => attempt' \in {attempt, attempt + 1}
      /\ (pc \in {"fetch", "body"} /\ outcome' = "resolved") =>
           /\ pc = "body" /\ pc' = "done"
           /\ result' \in Bodies
           /\ attempt' = attempt /\ fetches' = fetches /\ errs' = errs
      /\ (pc \in {"fetch", "body"} /\ Len(errs') > Len(errs)) =>
           /\ attempt' = attempt /\ fetches' = fetches
           /\ attempt < retries => (pc' = "delay" /\ outcome' = "pending")
           /\ attempt = retries => (pc' = "done" /\ outcome' = "rejected")
           /\ attempt <= retries
      /\ (pc = "delay" /\ pc' # "delay") =>
           /\ pc' = "fetch"
           /\ attempt' = attempt + 1
           /\ fetches' = fetches + 1
           /\ attempt' <= retries
      /\ pc = "done" =>
           (fetches' = fetches \/ pc' = "idle")
      /\ (pc = "done" /\ pc' # "idle") =>
           (pc' = "done" /\ outcome' = outcome /\ result' = result /\ error' = error)
    ]_vars

C2_Witness ==
  /\ pc = "done"
  /\ outcome = "resolved"
  /\ attempt = 1
  /\ fetches = 2
  /\ Len(errs) = 1
  /\ result \in Bodies

\* C3: every finished request has made at least one attempt and has either
\* resolved with a decoded response body or rejected with an error.
C3_OneOutcome ==
  pc = "done" =>
    /\ fetches >= 1
    /\ \/ (outcome = "resolved" /\ result \in Bodies /\ error = NoError)
       \/ (outcome = "rejected" /\ error # NoError)

\* C4: the error of a rejected request is the error caught by the last
\* attempt (attempt index = retries), and a request all of whose attempts
\* failed is not resolved.
C4_LastError ==
  /\ (pc = "done" /\ outcome = "rejected") =>
       /\ Len(errs) = retries + 1
       /\ error = errs[Len(errs)]
       /\ error.at = retries
  /\ (pc = "done" /\ fetches >= 1 /\ AllAttemptsFailed) => outcome = "rejected"

C4_Witness ==
  /\ pc = "done"
  /\ outcome = "rejected"
  /\ retries = 2
  /\ errs[1].name # errs[3].name
  /\ errs[2].name # errs[3].name
  /\ error = errs[3]

\* the catch block's handling of a failed attempt, whatever the failure was
HandledAsFailure ==
  /\ Len(errs') = Len(errs) + 1
  /\ fetches' = fetches
  /\ attempt' = attempt
  /\ IF attempt = retries
       THEN pc' = "done" /\ outcome' = "rejected" /\ error' = errs'[Len(errs')]
       ELSE pc' = "delay" /\ outcome' = "pending"
            /\ delays' = Append(delays, Backoff(attempt))

\* C5: an attempt whose fetch() resolves with a non-2xx response is handled
\* by the same catch block as a rejected fetch(), an abort or an undecodable
\* body: one failed attempt, then the delay and a new attempt when attempts
\* remain, the call's error when it was the last attempt.
C5_StatusIsFailure ==
  [][ /\ (pc = "fetch" /\ resp' # 0 /\ resp = 0 /\ ~(resp' \in 200..299)) =>
           /\ HandledAsFailure
           /\ errs'[Len(errs')].name = "AtlasNetworkError"
      /\ (pc \in {"fetch", "body"} /\ Len(errs') > Len(errs)) => HandledAsFailure
    ]_vars

C5_Witness ==
  /\ pc = "done"
  /\ outcome = "rejected"
  /\ retries = 1
  /\ errs[1].name = "AtlasNetworkError"
  /\ errs[2].name = "AtlasNetworkError"
  /\ Len(delays) = 1

\* C6: no attempt is pending for longer than the configured timeout.
C6_AttemptBounded ==
  pc \in {"fetch", "body"} => elapsed <= timeout

\* C7: the i-th delay (0-based) is retryDelay * 2^i, there are at most
\* `retries` delays, and an always-failing call has waited
\* retryDelay * (2^retries - 1) in total.
C7_ExponentialBackoff ==
  /\ \A i \in 1 .. Len(delays) : delays[i] = retryDelay * Pow2(i - 1)
  /\ retries >= 0 => Len(delays) <= retries
  /\ (pc = "done" /\ outcome = "rejected") =>
       SumSeq(delays) = retryDelay * (Pow2(retries) - 1)

\* C10: a get returns a value only when the entry it found has not expired
\* (now <= expiresAt) and then returns that entry's value; a get of a key
\* whose entry has expired, or that has no entry, reports absent, also when
\* the expired entry was still in the map.
C10_NoExpiredRead ==
  lastOp.op = "get" =>
    LET b == lastOp.before
        k == lastOp.key
    IN /\ lastOp.ret # Null =>
            /\ k \in DOMAIN b
            /\ lastOp.at <= b[k].expiresAt
            /\ lastOp.ret = b[k].data
       /\ (k \notin DOMAIN b \/ lastOp.at > b[k].expiresAt) => lastOp.ret = Null

C10_Witness ==
  /\ lastOp.op = "get"
  /\ lastOp.key \in DOMAIN lastOp.before
  /\ lastOp.at = lastOp.before[lastOp.key].expiresAt + 1
  /\ lastOp.ret = Null

\* C8: a service operation whose request was rejected by a timeout, a
\* transport failure or a non-2xx response rejects with an AtlasNetworkError
\* (code NETWORK_ERROR); for a non-2xx response the error's message carries
\* the response's status and status text.
C8_NetworkErrorSurface ==
  (/\ svc.pc = "returned"
   /\ svc.sent
   /\ svc.outcome = "rejected"
   /\ error.name \in {"AbortError", "TypeError", "AtlasNetworkError"}) =>
     /\ svc.err.name = "AtlasNetworkError"
     /\ svc.err.code = "NETWORK_ERROR"
     /\ error.name = "AtlasNetworkError" =>
          /\ svc.err.message.status = resp
          /\ svc.err.message.statusText = StatusText(resp)

RequiredMissing ==
  \/ svc.op \in {"getById", "update", "delete"} /\ svc.id = ""
  \/ svc.op = "getBySlug" /\ svc.slug = ""

\* C9: an operation called with its required argument missing rejects with
\* an AtlasValidationError without calling the HttpClient; the step that
\* rejects it changes neither the HttpClient's state (no fetch, no retry, no
\* delay) nor the cache.
C9_ValidationFirst ==
  /\ [](RequiredMissing =>
          /\ svc.pc = "returned"
          /\ svc.outcome = "rejected"
          /\ svc.err.name = "AtlasValidationError"
          /\ svc.err.code = "VALIDATION_ERROR"
          /\ ~svc.sent
          /\ pc = "idle"
          /\ cache = svc.before)
  /\ [][(svc' # svc /\ svc'.err.name = "AtlasValidationError") =>
          (RequiredMissing' /\ UNCHANGED <<httpVars, cache>>)]_vars

C9_Witness ==
  /\ RequiredMissing
  /\ svc.err.name = "AtlasValidationError"
  /\ cache # EmptyMap
  /\ fetches >= 1

\* ------------------------------------------------ properties of MemoryCache
\* the entries of all keys but k are the same in maps a and b
SameExcept(a, b, k) ==
  /\ (DOMAIN a) \ {k} = (DOMAIN b) \ {k}
  /\ \A x \in (DOMAIN a) \ {k} : a[x] = b[x]

\* C11: a get of a key whose current entry was set with a positive TTL and
\* whose expiry the clock has not passed returns exactly the value that was
\* set; in particular a get that directly follows such a set returns it.
C11_RoundTrip ==
  /\ [](lastOp.op = "get" =>
          LET b == lastOp.before
              k == lastOp.key
          IN (/\ k \in DOMAIN b
              /\ b[k].expiresAt > b[k].timestamp
              /\ lastOp.at <= b[k].expiresAt) => lastOp.ret = b[k].data)
  /\ [][(/\ lastOp.op = "set"
         /\ cache[lastOp.key].expiresAt > cache[lastOp.key].timestamp
         /\ lastOp'.op = "get"
         /\ lastOp'.key = lastOp.key) => lastOp'.ret = lastOp.ret]_vars

C11_Witness ==
  /\ lastOp.op = "get"
  /\ lastOp.key \in DOMAIN lastOp.before
  /\ lastOp.before[lastOp.key].expiresAt > lastOp.before[lastOp.key].timestamp
  /\ lastOp.at = lastOp.before[lastOp.key].expiresAt
  /\ lastOp.ret = "v2"

\* C12: an entry set with ttlMinutes <= 0 is never returned by a get, not
\* even by a get at the clock instant of the set.
C12_NonPositiveTtlAbsent ==
  lastOp.op = "get" =>
    LET b == lastOp.before
        k == lastOp.key
    IN (k \in DOMAIN b /\ b[k].expiresAt <= b[k].timestamp) => lastOp.ret = Null

\* C13: a get of a key whose entry the clock has passed reports absent and
\* removes exactly that entry: size() drops by one, the key is gone, and the
\* entries of the other keys are as before.
C13_ExpiredEvicted ==
  lastOp.op = "get" =>
    LET b == lastOp.before
        k == lastOp.key
    IN (k \in DOMAIN b /\ lastOp.at > b[k].expiresAt) =>
         /\ lastOp.ret = Null
         /\ k \notin DOMAIN cache
         /\ CacheSize(cache) = CacheSize(b) - 1
         /\ SameExcept(b, cache, k)

C13_Witness ==
  /\ lastOp.op = "get"
  /\ lastOp.key \in DOMAIN lastOp.before
  /\ lastOp.at > lastOp.before[lastOp.key].expiresAt
  /\ lastOp.before[lastOp.key].expiresAt > lastOp.before[lastOp.key].timestamp
  /\ CacheSize(lastOp.before) = 2
  /\ CacheSize(cache) = 1

\* C14: set(k, v, ttl) leaves k with value v and expiresAt = now + ttl *
\* 60000, whatever entry k had; size() is unchanged when k was present and
\* one more otherwise; the entries of the other keys are as before.
C14_SetOverwrites ==
  [][\A k \in CacheKeys, v \in Bodies, ttl \in Ttls :
       Set(k, v, ttl) =>
         /\ k \in DOMAIN cache'
         /\ cache'[k].data = v
         /\ cache'[k].expiresAt = now + ttl * MsPerMinute
         /\ k \in DOMAIN cache => CacheSize(cache') = CacheSize(cache)
         /\ k \notin DOMAIN cache => CacheSize(cache') = CacheSize(cache) + 1
         /\ SameExcept(cache, cache', k)]_vars

C14_Witness ==
  /\ lastOp.op = "set"
  /\ lastOp.key \in DOMAIN lastOp.before
  /\ CacheSize(lastOp.before) = 2
  /\ lastOp.before[lastOp.key].data # cache[lastOp.key].data
  /\ lastOp.before[lastOp.key].expiresAt # cache[lastOp.key].expiresAt
  /\ cache[lastOp.key].expiresAt = now + MsPerMinute

\* C15: delete(k) removes the entry of k and no other, returns true exactly
\* when k had an entry, and a get(k) that directly follows reports absent.
C15_DeleteExact ==
  /\ [](lastOp.op = "delete" =>
          /\ lastOp.existed = (lastOp.key \in DOMAIN lastOp.before)
          /\ lastOp.key \notin DOMAIN cache
          /\ SameExcept(lastOp.before, cache, lastOp.key))
  /\ [][(lastOp.op = "delete" /\ lastOp'.op = "get" /\ lastOp'.key = lastOp.key)
          => lastOp'.ret = Null]_vars

C15_Witness ==
  /\ lastOp.op = "delete"
  /\ lastOp.existed
  /\ CacheSize(lastOp.before) = 2
  /\ CacheSize(cache) = 1

\* C16: directly after clear() size() is 0 and a get of any key reports
\* absent.
C16_ClearEmpties ==
  /\ [](lastOp.op = "clear" =>
          /\ CacheSize(cache) = 0
          /\ \A k \in CacheKeys : CacheGetRet(cache, k, now) = Null)
  /\ [][(lastOp.op = "clear" /\ lastOp'.op = "get") => lastOp'.ret = Null]_vars

C16_Witness ==
  /\ lastOp.op = "clear"
  /\ CacheSize(lastOp.before) = 2
  /\ \E k \in DOMAIN lastOp.before : lastOp.at <= lastOp.before[k].expiresAt
  /\ CacheSize(cache) = 0

\* ------------------------------------- properties of processPaginationOptions
Max(a, b) == IF a >= b THEN a ELSE b

PageBased == norm.done /\ req.page.set
OffsetBased == norm.done /\ ~req.page.set /\ req.offset.set

\* C18: for a page-based request the returned offset is
\* max(0, (page - 1) * limit) with the returned limit, it is never negative,
\* and the returned page is the page given.
C18_PageToOffset ==
  PageBased =>
    /\ norm.offset = Max(0, (req.page.v - 1) * norm.limit)
    /\ norm.offset >= 0
    /\ norm.page = req.page.v

\* C19: for an offset-based request the returned offset is the offset given
\* and the returned page p is floor(offset / limit) + 1 for the returned
\* limit: offset lies between (p - 1) * limit and p * limit, the latter
\* excluded.
C19_OffsetToPage ==
  OffsetBased =>
    LET q == norm.page - 1
        l == norm.limit
    IN /\ norm.offset = req.offset.v
       /\ l # 0
       /\ l > 0 => (q * l <= norm.offset /\ norm.offset < (q + 1) * l)
       /\ l < 0 => (q * l >= norm.offset /\ norm.offset > (q + 1) * l)

C19_Witness ==
  /\ OffsetBased
  /\ req.limit = Given(2)
  /\ req.offset = Given(3)
  /\ norm.page = 2
  /\ norm.offset = 3

\* C20: the returned limit is a positive integer, and it is 10 whenever the
\* given limit is absent, zero or negative.
C20_LimitPositive ==
  norm.done =>
    /\ norm.limit > 0
    /\ (~req.limit.set \/ req.limit.v <= 0) => norm.limit = DefaultLimit

\* C21: when a request carries both page and offset, the page is used: the
\* returned offset is the one computed from page and limit, the returned page
\* is the page given, and the same request with any other offset (or none)
\* has the same result.
C21_PagePrecedence ==
  (norm.done /\ req.page.set /\ req.offset.set) =>
    /\ norm.page = req.page.v
    /\ norm.offset = (IF req.page.v < 1 THEN 0
                      ELSE (req.page.v - 1) * norm.limit)
    /\ \A o \in Offsets :
         processPaginationOptions([req EXCEPT !.offset = o]) = norm

C21_Witness ==
  /\ norm.done
  /\ req.page = Given(2)
  /\ req.offset = Given(4)
  /\ req.limit = Given(3)
  /\ norm.offset = 3

\* the offset-based request for the start of page p with limit l
OffsetRequestOf(p, l) ==
  [limit |-> Given(l), page |-> Absent, offset |-> Given((p - 1) * l)]

\* C22: for a page p >= 1 and a limit l >= 1, the request {page: p, limit: l}
\* and the request {offset: (p-1)*l, limit: l} are normalized to the same
\* {limit: l, offset: (p-1)*l, page: p}.
C22_PageOffsetAgree ==
  (/\ norm.done
   /\ req.page.set /\ req.page.v >= 1
   /\ req.limit.set /\ req.limit.v >= 1
   /\ ~req.offset.set) =>
    LET p == req.page.v
        l == req.limit.v
    IN /\ norm = [done |-> TRUE, limit |-> l, offset |-> (p - 1) * l, page |-> p]
       /\ processPaginationOptions(OffsetRequestOf(p, l)) = norm

C22_Witness ==
  /\ norm.done
  /\ req = [limit |-> Given(2), page |-> Given(3), offset |-> Absent]
  /\ norm.offset = 4
  /\ processPaginationOptions(OffsetRequestOf(3, 2)).page = 3

\* ------------------------------------- properties of enrichPaginationResponse
EnrichedBlock == enriched.done /\ enrichArgs.response.pagination.present

\* tp = ceil(total / limit) for limit # 0
IsCeilOf(tp, total, limit) ==
  IF limit > 0 THEN (tp - 1) * limit < total /\ total <= tp * limit
  ELSE (tp - 1) * limit > total /\ total >= tp * limit

\* p = floor(offset / limit) + 1 for limit # 0
IsPageOf(p, offset, limit) ==
  IF limit > 0 THEN (p - 1) * limit <= offset /\ offset < p * limit
  ELSE (p - 1) * limit >= offset /\ offset > p * limit

\* C23: for a response with a pagination block of a non-zero limit, the
\* returned page is the requested page when one is given and
\* floor(offset/limit) + 1 otherwise, totalPages is ceil(total/limit),
\* hasMore is page < totalPages, hasPrevious is page > 1, and total, limit,
\* offset and the data of the response are unchanged.
C23_Enrichment ==
  (EnrichedBlock /\ enrichArgs.response.pagination.limit # 0) =>
    LET in == enrichArgs.response.pagination
        out == enriched.pagination
    IN /\ out.page.k = "int" /\ out.totalPages.k = "int"
       /\ IF enrichArgs.requestedPage.set
            THEN out.page.v = enrichArgs.requestedPage.v
            ELSE IsPageOf(out.page.v, in.offset, in.limit)
       /\ IsCeilOf(out.totalPages.v, in.total, in.limit)
       /\ out.hasMore = (out.page.v < out.totalPages.v)
       /\ out.hasPrevious = (out.page.v > 1)
       /\ out.total = in.total /\ out.limit = in.limit /\ out.offset = in.offset
       /\ enriched.data = enrichArgs.response.data

\* C24: with total = 0 and limit > 0, totalPages is 0 and hasMore is false
\* whatever the page, and hasPrevious is false for page 1.
C24_ZeroResults ==
  (/\ EnrichedBlock
   /\ enrichArgs.response.pagination.total = 0
   /\ enrichArgs.response.pagination.limit > 0) =>
    /\ enriched.pagination.totalPages = Num(0)
    /\ ~enriched.pagination.hasMore
    /\ enriched.pagination.page = Num(1) => ~enriched.pagination.hasPrevious

\* C25: with limit <= 0 in the pagination block, page and totalPages are the
\* ones of the default limit; totalPages is a finite non-negative integer.
C25_InvalidLimitCoerced ==
  (EnrichedBlock /\ enrichArgs.response.pagination.limit <= 0) =>
    LET in == enrichArgs.response.pagination
        out == enriched.pagination
    IN /\ out.totalPages.k = "int"
       /\ out.totalPages.v >= 0
       /\ IsCeilOf(out.totalPages.v, in.total, DefaultLimit)
       /\ out.page.k = "int"
       /\ ~(enrichArgs.requestedPage.set /\ enrichArgs.requestedPage.v # 0) =>
            IsPageOf(out.page.v, in.offset, DefaultLimit)

\* ------------------------------------------ properties of cache invalidation
MutationOps == {"create", "update", "delete"}

\* the one content item of the model has id "a" and slug "s"
KeysOfItem(id) ==
  { generateCacheKey("content-id", <<Str("id", id)>>),
    generateCacheKey("content-slug", <<Str("slug", "s")>>) }

ListKeys == { generateCacheKey("content", options) : options \in ListOptions }

\* the keys whose cached values a mutation makes stale
StaleKeys(op, id) ==
  IF op = "create" THEN ListKeys ELSE ListKeys \cup KeysOfItem(id)

\* C26: when a create, update or delete succeeds, no readable entry is left
\* under the id key of the mutated item, the slug key of its slug or any
\* list key, so no later read returns a value cached before the mutation.
C26_MutationInvalidates ==
  [][(/\ svc.pc = "await"
      /\ svc.op \in MutationOps
      /\ svc'.pc = "returned"
      /\ svc'.outcome = "resolved") =>
       \A k \in StaleKeys(svc.op, svc.id) :
         k \in DOMAIN cache' => IsExpired(cache'[k], now')]_vars

\* --------------------------------------------------- properties of updateConfig
\* a read of a service gets past its argument check
ReadStarts ==
  /\ calls' = calls + 1
  /\ svc'.op \in ReadOps
  /\ svc'.key # ""

\* a read of a service stores or skips storing its response
ReadSettles ==
  /\ svc.pc = "await"
  /\ svc.op \in ReadOps
  /\ svc'.pc = "returned"
  /\ svc'.outcome = "resolved"

\* C27: once updateConfig has switched the cache off, a read issues a
\* network request whatever the cache holds and leaves the cache as it is;
\* while the cache is on, a read stores its response with the cacheDuration
\* that updateConfig set last.
C27_UpdateConfigApplies ==
  [][/\ (ReadStarts /\ ~clientConfig.cache) => (svc'.sent /\ cache' = cache)
     /\ (ReadSettles /\ ~clientConfig.cache) => cache' = cache
     /\ (ReadSettles /\ clientConfig.cache) =>
          /\ svc.key \in DOMAIN cache'
          /\ cache'[svc.key].expiresAt
               = now + clientConfig.cacheDuration * MsPerMinute]_vars

\* ------------------------------------------- properties of concurrent reads
\* C28: a getById that finds no readable entry sends its own request even
\* when another call for the same key is awaiting its response, and every
\* response that arrives is stored; the number of requests and of stored
\* responses for a key is not bounded by one.
C28_NoSingleFlight ==
  [][\A p \in Procs :
       /\ \A id \in Ids :
            (/\ BeginGetById(p, id)
             /\ ~Missing(id)
             /\ ~(config.cache /\ Truthy(CacheGetRet(
                    cache, generateCacheKey("content-id", <<Str("id", id)>>),
                    now)))) =>
              /\ procs'[p].pc = "await"
              /\ procs'[p].sent
              /\ traffic'.sent = traffic.sent + 1
       /\ \A v \in Bodies :
            (GetResolves(p, v) /\ config.cache) =>
              /\ cache'[procs[p].key].data = v
              /\ procs'[p].stored
              /\ traffic'.stored = traffic.stored + 1]_vars

\* both callers missed before either stored, both sent a request and both
\* stored their response under the same key
C28_Witness ==
  /\ config.cache
  /\ \A p \in Procs :
       /\ procs[p].pc = "returned"
       /\ procs[p].outcome = "resolved"
       /\ procs[p].sent
       /\ procs[p].stored
       /\ procs[p].seen = 0
  /\ procs["p1"].key = procs["p2"].key
  /\ traffic.sent = 2
  /\ traffic.stored = 2

\* ------------------------------------------------ properties of the singleton
\* C29: createAtlasClient on an existing instance returns that instance with
\* the new config merged into its config and its cache as it was, and
\* constructs nothing; with no instance, a call that returns has installed
\* and returned a client that did not exist before. getAtlasClient returns
\* the instance held, resetAtlasClient leaves none, and only
\* createAtlasClient ends the time without an instance.
C29_Singleton ==
  [][/\ \A cfg \in ClientConfigs :
          createAtlasClient(cfg) =>
            IF atlasClientInstance # 0
              THEN /\ api'.ret = atlasClientInstance
                   /\ api'.err = NoError
                   /\ atlasClientInstance' = atlasClientInstance
                   /\ made' = made
                   /\ cache' = cache
                   /\ instConfig'.apiUrl =
                        (IF cfg.apiUrl = Undefined THEN instConfig.apiUrl
                         ELSE cfg.apiUrl)
                   /\ instConfig'.websiteId =
                        (IF cfg.websiteId = Undefined THEN instConfig.websiteId
                         ELSE cfg.websiteId)
                   /\ instConfig'.cacheDuration =
                        (IF cfg.cacheDuration.set THEN cfg.cacheDuration.v
                         ELSE instConfig.cacheDuration)
              ELSE api'.err = NoError =>
                     /\ api'.ret > made.clients
                     /\ atlasClientInstance' = api'.ret
                     /\ made'.clients = made.clients + 1
     /\ getAtlasClient =>
          /\ api'.ret = atlasClientInstance
          /\ atlasClientInstance' = atlasClientInstance
     /\ resetAtlasClient => atlasClientInstance' = 0
     /\ (atlasClientInstance = 0 /\ atlasClientInstance' # 0) =>
          api'.fn = "createAtlasClient"]_vars

\* a second createAtlasClient met the first client, whose cache holds an
\* entry, and changed its apiUrl and cacheDuration
C29_Witness ==
  /\ api = ApiCall("createAtlasClient", 1, NoError)
  /\ atlasClientInstance = 1
  /\ made.clients = 1
  /\ cache # EmptyMap
  /\ instConfig = [apiUrl |-> "u2", websiteId |-> "w", cacheDuration |-> 1]

\* C30: with no instance, createAtlasClient with an empty or missing apiUrl
\* or websiteId throws an AtlasValidationError, constructs no client, cache
\* or HTTP client and leaves the singleton unset; getAtlasClient then
\* returns null.
C30_InvalidConfigRejected ==
  [][/\ \A cfg \in ClientConfigs :
          (/\ createAtlasClient(cfg)
           /\ atlasClientInstance = 0
           /\ (Falsy(cfg.apiUrl) \/ Falsy(cfg.websiteId))) =>
            /\ api'.err.name = "AtlasValidationError"
            /\ api'.err.message.text \in
                 {"apiUrl is required", "websiteId is required"}
            /\ api'.ret = 0
            /\ made' = made
            /\ cache' = cache
            /\ atlasClientInstance' = 0
     /\ (getAtlasClient /\ atlasClientInstance = 0) => api'.ret = 0]_vars

\* createAtlasClient threw for its websiteId, nothing having been constructed
C30_Witness ==
  /\ api = ApiCall("createAtlasClient", 0,
                   AtlasValidationError(Msg("websiteId is required", 0, "")))
  /\ made = NoObjects
  /\ atlasClientInstance = 0

\* ------------------------------------------------ properties of read-through
\* the read that just returned went to the network and got a response
ReadFetched ==
  /\ svc.pc = "returned"
  /\ svc.op \in ReadOps
  /\ svc.outcome = "resolved"
  /\ svc.sent

\* the same read is called again within the TTL of what the first one stored
SameReadAgain ==
  /\ ReadFetched
  /\ ReadStarts
  /\ svc'.op = svc.op
  /\ svc'.key = svc.key
  /\ svc.key \in DOMAIN cache
  /\ now <= cache[svc.key].timestamp + config.cacheDuration * MsPerMinute

\* C31: with caching on, a read that misses stores the response under its
\* key, and the same read called again within the TTL, nothing else called in
\* between, returns the stored response without calling the HttpClient.
C31_SecondReadFromCache ==
  [][/\ (ReadSettles /\ config.cache) =>
          /\ svc.sent
          /\ svc.key \in DOMAIN cache'
          /\ cache'[svc.key].data = svc'.ret
     /\ (SameReadAgain /\ config.cache) =>
          /\ ~svc'.sent
          /\ svc'.pc = "returned"
          /\ svc'.outcome = "resolved"
          /\ svc'.ret = svc.ret
          /\ UNCHANGED fetches]_vars

\* ------------------------------------------- properties of failed operations
\* the request awaited by a service operation was rejected
RequestFails ==
  /\ svc.pc = "await"
  /\ svc'.pc = "returned"
  /\ svc'.outcome = "rejected"

\* C32 as stated: an operation whose request fails leaves the cache exactly
\* as it was when the operation was called.
C32_FailureLeavesCacheExact == [][RequestFails => cache' = svc.before]_vars

\* C32, amended: an operation whose request fails stores and changes
\* nothing, and removes nothing but, for a read, the entry of its own key
\* when that entry had expired before the lookup; a failed mutation or
\* trigger leaves the cache exactly as it was.
C32_FailureStoresNothing ==
  [][RequestFails =>
       /\ \A k \in DOMAIN cache' :
            k \in DOMAIN svc.before /\ cache'[k] = svc.before[k]
       /\ \A k \in (DOMAIN svc.before) \ DOMAIN cache' :
            /\ svc.op \in ReadOps
            /\ k = svc.key
            /\ svc.before[k].expiresAt < now
       /\ svc.op \notin ReadOps => cache' = svc.before]_vars

\* an update failed while the cache held an entry, which is still there
C32_Witness ==
  /\ svc.pc = "returned"
  /\ svc.outcome = "rejected"
  /\ svc.sent
  /\ svc.op = "update"
  /\ svc.before # EmptyMap
  /\ cache = svc.before

\* --------------------------------------- properties of concurrent invalidation
\* the value that p receives was read by the server before it applied a
\* mutation of the same id whose call has already returned
FetchedBeforeMutation(p) ==
  \E m \in Procs \ {p} :
    /\ procs[m].op \in {"update", "delete"}
    /\ procs[m].pc = "returned"
    /\ procs[m].outcome = "resolved"
    /\ procs[m].id = procs[p].id
    /\ procs[p].epoch < procs[m].epoch

\* C33: when a getById that was in flight while an update or delete of the
\* same id completed returns, the cache holds no entry for that id with the
\* value the server read before the mutation.
C33_NoStaleWrite ==
  [][\A p \in Procs, v \in Bodies :
       (GetResolves(p, v) /\ procs[p].sent /\ FetchedBeforeMutation(p)) =>
         procs[p].key \notin DOMAIN cache']_vars

\* ------------------------------------------------- properties of sync triggers
\* the request of a trigger resolves and the trigger returns
TriggerSucceeds ==
  /\ svc.pc = "await"
  /\ svc.op \in SyncOps \cup DryRunOps
  /\ svc'.pc = "returned"
  /\ svc'.outcome = "resolved"

\* C34: a successful triggerLocationSync or triggerPublicationSync leaves the
\* cache empty (size() = 0); a successful triggerLocationDryRun or
\* triggerPublicationDryRun leaves every entry as it was when it was called.
C34_SyncClearsDryRunKeeps ==
  [][TriggerSucceeds =>
       /\ svc.op \in SyncOps => CacheSize(cache') = 0
       /\ svc.op \in DryRunOps => cache' = svc.before /\ cache' = cache]_vars

\* a sync trigger that found an entry has returned and the cache is empty
C34_Witness ==
  /\ svc.pc = "returned"
  /\ svc.outcome = "resolved"
  /\ svc.op \in SyncOps
  /\ svc.before # EmptyMap
  /\ CacheSize(cache) = 0

\* ------------------------------------------------ properties of retried writes
WriteMethods == {"POST", "PUT", "DELETE"}

\* the current attempt ends in the catch block
AttemptFails == Len(errs') = Len(errs) + 1

\* C35: the retry loop does not look at the method: an attempt of a POST,
\* PUT or DELETE that fails before the last one (by timeout too) is followed
\* by a delay and a new fetch of the same method, so one write sends up to
\* retries + 1 requests.
C35_WritesResent ==
  [][(method \in WriteMethods) =>
       /\ (AttemptFails /\ attempt < retries) => (pc' = "delay")
       /\ (pc = "delay" /\ pc' # "delay") =>
            /\ pc' = "fetch"
            /\ fetches' = fetches + 1
            /\ method' = method
       /\ (AttemptFails /\ pc' = "done") => (fetches' = retries + 1)
       /\ fetches' <= retries + 1]_vars

\* a write whose first attempt timed out was sent retries + 1 = 3 times
C35_Witness ==
  /\ method \in WriteMethods
  /\ retries = 2
  /\ pc = "done"
  /\ fetches = 3
  /\ Len(errs) >= 1
  /\ errs[1].name = "AbortError"

\* ------------------------------------------------- properties of updateConfig
ConfigUpdated == clientConfig' # clientConfig

\* C36: updateConfig changes the client's config object only: the timeout,
\* retries, retryDelay and headers (the bearer token too) of the HttpClient
\* built by the constructor and the contents of the cache are the same after
\* it as before it.
C36_UpdateConfigFrame ==
  [][ConfigUpdated =>
       /\ timeout' = timeout
       /\ retries' = retries
       /\ retryDelay' = retryDelay
       /\ headers' = headers
       /\ cache' = cache]_vars

\* every option was replaced in the client's config while an entry was
\* cached, and a later request still ran with the constructor's options
C36_Witness ==
  /\ clientConfig.apiKey = "k2"
  /\ clientConfig.retries = 0
  /\ clientConfig.timeout = 2
  /\ clientConfig.retryDelay = 100
  /\ retries = 1
  /\ timeout = 1
  /\ retryDelay = 1000
  /\ headers = getDefaultHeaders("k1")
  /\ cache # EmptyMap
  /\ fetches = 2

\* ---------------------------------------------------- properties of lazy expiry
\* the entry of k is not what it was: removed or replaced
Touched(k) == k \notin DOMAIN cache' \/ cache'[k] # cache[k]

\* C37: an entry whose expiry has passed stays in the map, counted by
\* size(), until a get, a set or a delete of its own key or a clear removes
\* or replaces it; a step of the clock alone leaves the map and size() as
\* they are.
C37_LazyExpiry ==
  [][/\ \A k \in DOMAIN cache :
          (IsExpired(cache[k], now) /\ Touched(k)) =>
             \/ lastOp'.op \in {"get", "set", "delete"} /\ lastOp'.key = k
             \/ lastOp'.op = "clear"
     /\ now' # now =>
          /\ cache' = cache
          /\ CacheSize(cache') = CacheSize(cache)]_vars

\* an entry expired a minute ago is still one of the two entries counted,
\* after the clock moved and after a get of the other key
C37_Witness ==
  /\ CacheSize(cache) = 2
  /\ lastOp.op = "get"
  /\ lastOp.ret # Null
  /\ \E k \in DOMAIN cache :
       /\ k # lastOp.key
       /\ IsExpired(cache[k], lastOp.at)
       /\ now > cache[k].expiresAt

\* ------------------------------------------------ properties of the key order
\* the same properties, whatever their order
SameMembers(o1, o2) ==
  {o1[i] : i \in DOMAIN o1} = {o2[i] : i \in DOMAIN o2}

\* list(o1) has returned the response it fetched and stored, and the entry
\* is still fresh
ListCached(o1) ==
  /\ svc.op = "list"
  /\ svc.pc = "returned"
  /\ svc.outcome = "resolved"
  /\ svc.sent
  /\ svc.key = generateCacheKey("content", o1)
  /\ CacheGetRet(cache, svc.key, now) # Null

\* C38 as stated: two option bags with the same keys and values inserted in
\* a different order have different cache keys, and a list with one does not
\* find what a list with the other has cached.
C38_InsertionOrderAlwaysMatters ==
  [][\A o1, o2 \in OrderedOptions :
       (SameMembers(o1, o2) /\ o1 # o2 /\ ListCached(o1) /\ List(o2)) =>
          /\ generateCacheKey("content", o1) # generateCacheKey("content", o2)
          /\ svc'.sent]_vars

\* C38, amended: two option bags with the same keys and values whose
\* emitted properties (those not undefined; array indices first, the other
\* names in insertion order) come in a different order have different cache
\* keys, and a list with one does not find what a list with the other has
\* cached: it is served from the cache only when an entry of its own key is
\* there; bags whose emitted properties come in the same order share a key.
C38_EmittedOrderMatters ==
  [][\A o1, o2 \in OrderedOptions :
       (SameMembers(o1, o2) /\ ListCached(o1) /\ List(o2)) =>
          IF Defined(OwnKeys(o1)) # Defined(OwnKeys(o2))
            THEN /\ generateCacheKey("content", o1)
                      # generateCacheKey("content", o2)
                 /\ svc'.key # svc.key
                 /\ svc'.sent =
                      (CacheGetRet(cache, generateCacheKey("content", o2),
                                   now) = Null)
            ELSE /\ generateCacheKey("content", o1)
                      = generateCacheKey("content", o2)
                 /\ ~svc'.sent
                 /\ svc'.ret = svc.ret]_vars

\* the list with status before type is cached, the list with type before
\* status missed and awaits its own request
C38_Witness ==
  /\ svc.op = "list"
  /\ svc.pc = "await"
  /\ svc.key = generateCacheKey("content", <<Str("type", "y"), Str("status", "x")>>)
  /\ generateCacheKey("content", <<Str("status", "x"), Str("type", "y")>>)
       \in DOMAIN svc.before
  /\ svc.key \notin DOMAIN svc.before

\* ------------------------------------------------ properties of the derived page
\* no page was requested and the block has limit >= 1, total >= 1 and an
\* offset inside the results
OffsetInsideResults ==
  /\ EnrichedBlock
  /\ ~enrichArgs.requestedPage.set
  /\ enrichArgs.response.pagination.limit >= 1
  /\ enrichArgs.response.pagination.total >= 1
  /\ enrichArgs.response.pagination.offset >= 0
  /\ enrichArgs.response.pagination.offset < enrichArgs.response.pagination.total

\* C39: when no page is requested and the block has limit >= 1, total >= 1
\* and 0 <= offset < total, the page derived from the offset lies between 1
\* and totalPages.
C39_DerivedPageInRange ==
  OffsetInsideResults =>
    /\ enriched.pagination.page.k = "int"
    /\ enriched.pagination.totalPages.k = "int"
    /\ 1 <= enriched.pagination.page.v
    /\ enriched.pagination.page.v <= enriched.pagination.totalPages.v

\* the last of 3 results with 2 per page: page 2 of 2
C39_Witness ==
  /\ OffsetInsideResults
  /\ enrichArgs.response.pagination.total = 3
  /\ enrichArgs.response.pagination.limit = 2
  /\ enrichArgs.response.pagination.offset = 2
  /\ enriched.pagination.page = Num(2)
  /\ enriched.pagination.totalPages = Num(2)

====
